---- MODULE Spec2Model ----
(***************************************************************************)
(* A model of BAC0/core/io/Read.py: the ReadProperty mix-in.               *)
(*                                                                         *)
(*   - build_rp_request / build_rpm_request are pure functions of the      *)
(*     token list; they are operators here, computed as the code computes  *)
(*     them (cursor walk, lexical digit test, registry look-ups).          *)
(*   - read / readMultiple are run by caller threads against one           *)
(*     application object holding _lock and ResponseQueue; the             *)
(*     asynchronous engine delivers (value, evt) pairs on its own          *)
(*     schedule.                                                           *)
(*                                                                         *)
(* Four specifications:                                                    *)
(*   Spec        caller threads, the guard, the engine, the queue          *)
(*   SpecFair    one call per thread on a started application, under a     *)
(*               fair schedule of the threads and the guard                *)
(*   SpecBuild   the two builders applied to every bounded token list      *)
(*   SpecGroups  build_rpm_request applied to token lists composed from    *)
(*               object groups                                             *)
(***************************************************************************)
EXTENDS Integers, Sequences, FiniteSets, TLC

\* ------------------------------------------------------------------ bounds
\* caller threads sharing one application object
NumThreads == 2
\* calls made in one behaviour (all threads together)
MaxCalls == 2
\* envelopes the response queue holds at once
MaxQueue == 1
\* tokens after the address in a token list of SpecBuild
MaxTokens == 5
\* tokens after the address in a token list of SpecGroups
MaxGroupTokens == 7

\* ---------------------------------------------------------------- options
\* Python's None and a present value, as sequences of length 0 and 1.
None == << >>

Some(x) == << x >>

\* ------------------------------------------------- tokens and the registry
\* The address token of every generated spec.
AddrToken == "2:5"

\* Address("2:5"): network 2, station 5.
Address(addr) ==
    CASE addr = "2:5" -> [net |-> 2, mac |-> 5]
      [] OTHER -> [net |-> 0, mac |-> 0]

\* The tokens that follow the address in the generated token lists.
Tokens == {"analogInput", "notificationClass", "presentValue", "all", "3", "12", "bogus"}

\* str.isdigit(): the digit strings of the alphabet.
isdigit(tok) == tok \in {"3", "12"}

\* int(tok) succeeds on the digit strings of the alphabet only.
IntParsable(tok) == isdigit(tok)

\* int(tok) for a digit string.
int(tok) ==
    CASE tok = "3" -> 3
      [] tok = "12" -> 12
      [] OTHER -> 0

\* An object type after the lexical test: an integer code or a name.
ObjTypeCode(n) == [code |-> n, name |-> ""]

ObjTypeName(s) == [code |-> -1, name |-> s]

\* get_object_class(name): truthy for the registered object type names.
\* "notificationClass" is an object type and a property identifier as well.
get_object_class(name) == name \in {"analogInput", "notificationClass"}

\* PropertyIdentifier.enumerations: the recognized property identifiers.
PropertyIdentifier_enumerations ==
    {"presentValue", "notificationClass", "units", "all", "required", "optional"}

\* Selectors with 'all' forgotten.
Selectors_without_all == {"required", "optional"}

\* The property-set selectors of build_rpm_request.
Selectors == {"all", "required", "optional"}

\* get_datatype(obj_type, prop_id): truthy when the registry knows the
\* property for the object type.  Code 12 stands for a type registered under
\* its number; code 3 has no registered class.
get_datatype(obj_type, prop_id) ==
    \/ obj_type.name = "analogInput"
         /\ prop_id \in {"presentValue", "units", "notificationClass"}
    \/ obj_type.name = "notificationClass" /\ prop_id \in {"notificationClass"}
    \/ obj_type.code = 12 /\ prop_id \in {"presentValue"}

\* -------------------------------------------------------- build_rp_request
Built(req) == [err |-> "", req |-> Some(req)]

Raised(e) == [err |-> e, req |-> None]

\* obj_type after "if obj_type.isdigit(): obj_type = int(obj_type)".
ResolveType(tok) == IF isdigit(tok) THEN ObjTypeCode(int(tok)) ELSE ObjTypeName(tok)

\* UnknownType with the registry never asked: every name passes.
UnknownType_registry_not_asked(tok) == FALSE

\* "elif not get_object_class(obj_type): raise ValueError"
UnknownType(tok) == ~isdigit(tok) /\ ~get_object_class(tok)

\* rp_array_index ignoring the argument: the index is set from a fifth token
\* only.
rp_array_index_from_token_only(args, arr_index) ==
    IF Len(args) = 5 THEN Some(int(args[5])) ELSE None

\* rp_array_index with the argument winning over the fifth token.
rp_array_index_prefers_argument(args, arr_index) ==
    IF arr_index # None THEN arr_index
    ELSE IF Len(args) = 5 THEN Some(int(args[5])) ELSE None

\* The index of the request of a token list that passed every check:
\* arr_index, replaced by int(args[4]) when there are exactly 5 tokens.
rp_array_index(args, arr_index) ==
    IF Len(args) = 5 THEN Some(int(args[5])) ELSE arr_index

build_rp_request(args, arr_index) ==
    IF Len(args) < 4 THEN Raised("ValueError: not enough values to unpack")
    ELSE LET addr     == args[1]
             obj_type == args[2]
             obj_inst == args[3]
             prop_id  == args[4]
         IN  IF UnknownType(obj_type) THEN Raised("ValueError: unknown object type")
             ELSE IF ~IntParsable(obj_inst) THEN Raised("ValueError: invalid literal for int()")
             ELSE IF ~get_datatype(ResolveType(obj_type), prop_id)
                  THEN Raised("ValueError: invalid property for object type")
             ELSE IF Len(args) = 5 /\ ~IntParsable(args[5])
                  THEN Raised("ValueError: invalid literal for int()")
             ELSE Built([objectIdentifier   |-> <<ResolveType(obj_type), int(obj_inst)>>,
                         propertyIdentifier |-> prop_id,
                         propertyArrayIndex |-> rp_array_index(args, arr_index),
                         pduDestination     |-> Address(addr)])

\* ------------------------------------------------------- build_rpm_request
PropertyReference(prop_id, idx) ==
    [propertyIdentifier |-> prop_id, propertyArrayIndex |-> idx]

ReadAccessSpecification(obj_type, obj_inst, refs) ==
    [objectIdentifier |-> <<obj_type, obj_inst>>, listOfPropertyReferences |-> refs]

\* TakesIndex with the bound off by one: a digit string that is the last token
\* is not taken.
TakesIndex_not_last(args, i) == i < Len(args) /\ isdigit(args[i])

\* "check for an array index": the token after a property is taken as its
\* index when it is a digit string.
TakesIndex(args, i) == i <= Len(args) /\ isdigit(args[i])

\* The inner loop from cursor i (1-based), with the references gathered so far.
\* Yields the error raised (or ""), the cursor and the references.
RECURSIVE prop_loop(_, _, _, _)
prop_loop(args, i, obj_type, refs) ==
    IF i > Len(args) \/ args[i] \notin PropertyIdentifier_enumerations
    THEN [err |-> "", i |-> i, refs |-> refs]
    ELSE LET prop_id == args[i]
             j       == i + 1
         IN  IF prop_id \notin Selectors /\ ~get_datatype(obj_type, prop_id)
             THEN [err |-> "ValueError: invalid property for object type", i |-> j, refs |-> refs]
             ELSE IF TakesIndex(args, j)
                  THEN prop_loop(args, j + 1, obj_type,
                                 Append(refs, PropertyReference(prop_id, Some(int(args[j])))))
                  ELSE prop_loop(args, j, obj_type,
                                 Append(refs, PropertyReference(prop_id, None)))

\* The outer loop from cursor i, with the specifications gathered so far.
RECURSIVE spec_loop(_, _, _)
spec_loop(args, i, specs) ==
    IF i > Len(args) THEN [err |-> "", specs |-> specs]
    ELSE LET obj_type == args[i]
         IN  IF UnknownType(obj_type)
             THEN [err |-> "ValueError: unknown object type", specs |-> specs]
             ELSE IF i + 1 > Len(args)
                  THEN [err |-> "IndexError: list index out of range", specs |-> specs]
             ELSE IF ~IntParsable(args[i + 1])
                  THEN [err |-> "ValueError: invalid literal for int()", specs |-> specs]
             ELSE LET inner == prop_loop(args, i + 2, ResolveType(obj_type), << >>)
                  IN  IF inner.err # "" THEN [err |-> inner.err, specs |-> specs]
                      ELSE IF inner.refs = << >>
                           THEN [err |-> "ValueError: provide at least one property",
                                 specs |-> specs]
                      ELSE spec_loop(args, inner.i,
                                     Append(specs,
                                            ReadAccessSpecification(ResolveType(obj_type),
                                                                    int(args[i + 1]),
                                                                    inner.refs)))

\* build_rpm_request without the "check for at least one" of the specification
\* list.
build_rpm_request_without_spec_check(args) ==
    IF Len(args) = 0 THEN Raised("IndexError: list index out of range")
    ELSE LET outer == spec_loop(args, 2, << >>)
         IN  IF outer.err # "" THEN Raised(outer.err)
             ELSE Built([listOfReadAccessSpecs |-> outer.specs,
                         pduDestination        |-> Address(args[1])])

\* Lines 191-262: the address, the outer loop, the check for at least one
\* specification, the request.
build_rpm_request(args) ==
    IF Len(args) = 0 THEN Raised("IndexError: list index out of range")
    ELSE LET outer == spec_loop(args, 2, << >>)
         IN  IF outer.err # "" THEN Raised(outer.err)
             ELSE IF outer.specs = << >>
                  THEN Raised("RuntimeError: at least one read access specification required")
             ELSE Built([listOfReadAccessSpecs |-> outer.specs,
                         pduDestination        |-> Address(args[1])])

\* ------------------------------------------------------------------ state
VARIABLES
    started,        \* self._started
    lock,           \* this_application._lock: 0 when free, else the holder
    pc,             \* each caller thread's position in read / readMultiple
    call,           \* each caller thread's current call and what it did so far
    ResponseQueue,  \* this_application.ResponseQueue: envelopes (data, evt)
    outstanding,    \* requests the engine accepted and has not answered
    ncalls,         \* calls made so far
    args,           \* builder specifications: the token list
    arr_index,      \* builder specifications: the optional index argument
    result,         \* builder specifications: what the builder gave
    bpc,            \* builder specifications: "input", "rp" or "rpm"
    groups          \* SpecGroups: the object groups the token list is made of

vars == <<started, lock, pc, call, ResponseQueue, outstanding, ncalls,
          args, arr_index, result, bpc, groups>>

ioVars == <<started, lock, pc, call, ResponseQueue, outstanding, ncalls>>

buildVars == <<args, arr_index, result, bpc, groups>>

Threads == 1 .. NumThreads

\* The segmentation-not-supported sentinel the engine puts on the queue.
ErrSeg == "err_seg"

\* What the engine can deliver: a value read from the device, or the sentinel.
Payloads == {"42", ErrSeg}

\* The specs the callers of Spec pass to read: a valid one, an unknown object
\* type, a property without datatype.
ReadInputs ==
    { <<AddrToken, "analogInput", "12", "presentValue">>,
      <<AddrToken, "all", "12", "presentValue">>,
      <<AddrToken, "notificationClass", "12", "presentValue">> }

\* The specs the callers of Spec pass to readMultiple: a valid one, an object
\* without property, the address alone.
ReadMultipleInputs ==
    { <<AddrToken, "analogInput", "12", "presentValue", "all">>,
      <<AddrToken, "analogInput", "12">>,
      <<AddrToken>> }

\* A caller thread's call: its arguments, and a record of what it did.
\*   id         the number of the call (calls are numbered as they are made)
\*   guardBusy  whether the guard was held when the call was refused because
\*              the application was not started
\*   req        the call's id once the engine accepted its request, else 0
\*   got        the envelopes taken from the queue
\*   acked      the events set
NoCall ==
    [op |-> "none", id |-> 0, args |-> << >>, arr_index |-> None, guardBusy |-> FALSE,
     acquires |-> 0, releases |-> 0, builds |-> 0, submits |-> 0,
     logged |-> 0, req |-> 0, waits |-> 0, got |-> << >>, acked |-> << >>,
     outcome |-> "", err |-> "", value |-> None]

NewCall(op, a, idx) ==
    [NoCall EXCEPT !.op = op, !.id = ncalls + 1, !.args = a, !.arr_index = idx]

\* The exception class of a builder error message.
ExceptionClass(err) ==
    CASE err = "RuntimeError: at least one read access specification required" -> "RuntimeError"
      [] err = "IndexError: list index out of range" -> "IndexError"
      [] OTHER -> "ValueError"

ValidationErrors == {"ValueError", "RuntimeError", "IndexError"}

IoInit ==
    /\ started \in BOOLEAN
    /\ lock = 0
    /\ pc = [t \in Threads |-> "idle"]
    /\ call = [t \in Threads |-> NoCall]
    /\ ResponseQueue = << >>
    /\ outstanding = {}
    /\ ncalls = 0

BuildIdle ==
    /\ args = << >>
    /\ arr_index = None
    /\ result = Raised("")
    /\ bpc = "input"
    /\ groups = << >>

\* ------------------------------------------------------ read / readMultiple
\* entry with the started test moved inside the with block: a call on a stopped
\* application waits for the guard, takes it and gives it back.
entry_checks_inside_guard(t, op, a, idx) ==
    /\ pc[t] = "idle"
    /\ ncalls < MaxCalls
    /\ ncalls' = ncalls + 1
    /\ IF ~started
       THEN /\ lock = 0
            /\ call' = [call EXCEPT ![t] =
                           [NewCall(op, a, idx) EXCEPT !.outcome = "ApplicationNotStarted",
                                                       !.guardBusy = (lock # 0),
                                                       !.acquires = 1, !.releases = 1]]
            /\ pc' = [pc EXCEPT ![t] = "returned"]
       ELSE /\ call' = [call EXCEPT ![t] = NewCall(op, a, idx)]
            /\ pc' = [pc EXCEPT ![t] = "acquire"]
    /\ UNCHANGED <<started, lock, ResponseQueue, outstanding>>

\* entry with the tokens validated before the with block: a call whose tokens
\* the builder refuses ends at once and never asks for the guard.
entry_validates_first(t, op, a, idx) ==
    /\ pc[t] = "idle"
    /\ ncalls < MaxCalls
    /\ ncalls' = ncalls + 1
    /\ LET b == IF op = "read" THEN build_rp_request(a, idx) ELSE build_rpm_request(a)
       IN  IF ~started
           THEN /\ call' = [call EXCEPT ![t] =
                               [NewCall(op, a, idx) EXCEPT !.outcome = "ApplicationNotStarted",
                                                           !.guardBusy = (lock # 0)]]
                /\ pc' = [pc EXCEPT ![t] = "returned"]
           ELSE IF b.err # ""
           THEN /\ call' = [call EXCEPT ![t] =
                               [NewCall(op, a, idx) EXCEPT !.builds = 1, !.args = << >>,
                                                           !.err = b.err,
                                                           !.outcome = ExceptionClass(b.err)]]
                /\ pc' = [pc EXCEPT ![t] = "returned"]
           ELSE /\ call' = [call EXCEPT ![t] = NewCall(op, a, idx)]
                /\ pc' = [pc EXCEPT ![t] = "acquire"]
    /\ UNCHANGED <<started, lock, ResponseQueue, outstanding>>

\* "if not self._started: raise ApplicationNotStarted": the first statement of
\* both methods, before the guard.
entry(t, op, a, idx) ==
    /\ pc[t] = "idle"
    /\ ncalls < MaxCalls
    /\ ncalls' = ncalls + 1
    /\ IF ~started
       THEN /\ call' = [call EXCEPT ![t] =
                           [NewCall(op, a, idx) EXCEPT !.outcome = "ApplicationNotStarted",
                                                       !.guardBusy = (lock # 0)]]
            /\ pc' = [pc EXCEPT ![t] = "returned"]
       ELSE /\ call' = [call EXCEPT ![t] = NewCall(op, a, idx)]
            /\ pc' = [pc EXCEPT ![t] = "acquire"]
    /\ UNCHANGED <<started, lock, ResponseQueue, outstanding>>

\* read(args, arr_index = None)
read_entry(t) == \E a \in ReadInputs : entry(t, "read", a, None)

\* readMultiple(args)
readMultiple_entry(t) == \E a \in ReadMultipleInputs : entry(t, "readMultiple", a, None)

\* acquire with a guard that excludes nobody (the flag the comments of the
\* source show, set without being tested).
acquire_without_waiting(t) ==
    /\ pc[t] = "acquire"
    /\ lock' = t
    /\ call' = [call EXCEPT ![t].acquires = @ + 1]
    /\ pc' = [pc EXCEPT ![t] = "build"]
    /\ UNCHANGED <<started, ResponseQueue, outstanding, ncalls>>

\* "with self.this_application._lock:" entering: blocks while the guard is held.
acquire(t) ==
    /\ pc[t] = "acquire"
    /\ lock = 0
    /\ lock' = t
    /\ call' = [call EXCEPT ![t].acquires = @ + 1]
    /\ pc' = [pc EXCEPT ![t] = "build"]
    /\ UNCHANGED <<started, ResponseQueue, outstanding, ncalls>>

\* Leaving the with block by return or by exception releases the guard.
with_exit(t, c) ==
    /\ lock' = 0
    /\ call' = [call EXCEPT ![t] = [c EXCEPT !.releases = @ + 1]]
    /\ pc' = [pc EXCEPT ![t] = "returned"]

\* The builder was called with the tokens and gave b; the tokens are not used
\* again.
AfterBuild(c, b) == [c EXCEPT !.builds = @ + 1, !.args = << >>, !.err = b.err]

\* build_failed with an except clause that catches the builder's exception as
\* well: it is logged and the call goes on to the wait.
build_failed_is_logged(t, b) ==
    /\ call' = [call EXCEPT ![t] = [AfterBuild(call[t], b) EXCEPT !.logged = @ + 1]]
    /\ pc' = [pc EXCEPT ![t] = "wait"]
    /\ UNCHANGED <<started, lock, ResponseQueue, outstanding, ncalls>>

\* An exception of the builder (ValueError, RuntimeError, IndexError) is not
\* caught by "except ReadPropertyException": it leaves the try and the with
\* block.
build_failed(t, b) ==
    /\ with_exit(t, [AfterBuild(call[t], b) EXCEPT !.outcome = ExceptionClass(b.err)])
    /\ UNCHANGED <<started, ResponseQueue, outstanding, ncalls>>

\* submit with a retry: the request is handed to the engine a second time.
submit_twice(t, b) ==
    /\ outstanding' = outstanding \cup {call[t].id}
    /\ call' = [call EXCEPT ![t] =
                   [AfterBuild(call[t], b) EXCEPT !.submits = @ + 2, !.req = call[t].id]]
    /\ pc' = [pc EXCEPT ![t] = "wait"]
    /\ UNCHANGED <<started, lock, ResponseQueue, ncalls>>

\* log_exception(...): the message is written to the log and the caller goes
\* on.
log_exception(c) == [c EXCEPT !.logged = @ + 1]

\* submit without the except clause: the submission-time protocol error leaves
\* the with block and reaches the caller.
submit_error_propagates(t, b) ==
    \/ /\ outstanding' = outstanding \cup {call[t].id}
       /\ call' = [call EXCEPT ![t] =
                      [AfterBuild(call[t], b) EXCEPT !.submits = @ + 1, !.req = call[t].id]]
       /\ pc' = [pc EXCEPT ![t] = "wait"]
       /\ UNCHANGED <<started, lock, ResponseQueue, ncalls>>
    \/ /\ with_exit(t, [AfterBuild(call[t], b) EXCEPT !.submits = @ + 1,
                                                      !.outcome = "ReadPropertyException"])
       /\ UNCHANGED <<started, ResponseQueue, outstanding, ncalls>>

\* this_application.request(request): the engine takes the request, or raises
\* the submission-time protocol error, which is caught and logged.
submit(t, b) ==
    \/ /\ outstanding' = outstanding \cup {call[t].id}
       /\ call' = [call EXCEPT ![t] =
                      [AfterBuild(call[t], b) EXCEPT !.submits = @ + 1, !.req = call[t].id]]
       /\ pc' = [pc EXCEPT ![t] = "wait"]
       /\ UNCHANGED <<started, lock, ResponseQueue, ncalls>>
    \/ /\ call' = [call EXCEPT ![t] =
                      log_exception([AfterBuild(call[t], b) EXCEPT !.submits = @ + 1])]
       /\ pc' = [pc EXCEPT ![t] = "wait"]
       /\ UNCHANGED <<started, lock, ResponseQueue, outstanding, ncalls>>

\* read, lines 82-91: split, build, hand to the application.
read_request(t) ==
    /\ pc[t] = "build"
    /\ call[t].op = "read"
    /\ LET b == build_rp_request(call[t].args, call[t].arr_index)
       IN  IF b.err # "" THEN build_failed(t, b) ELSE submit(t, b)

\* readMultiple, lines 133-141.
readMultiple_request(t) ==
    /\ pc[t] = "build"
    /\ call[t].op = "readMultiple"
    /\ LET b == build_rpm_request(call[t].args)
       IN  IF b.err # "" THEN build_failed(t, b) ELSE submit(t, b)

\* Took with the evt.set() left out.
Took_without_set(c, env) ==
    [c EXCEPT !.waits = @ + 1, !.got = Append(@, env)]

\* ResponseQueue.get(timeout=...) gave an envelope, and evt.set().
Took(c, env) ==
    [c EXCEPT !.waits = @ + 1, !.got = Append(@, env), !.acked = Append(@, env.evt)]

\* read, lines 97-103: set the event, raise on the sentinel, else return data.
read_receive(t) ==
    /\ ResponseQueue # << >>
    /\ LET env == Head(ResponseQueue)
       IN  /\ ResponseQueue' = Tail(ResponseQueue)
           /\ IF env.data = ErrSeg
              THEN with_exit(t, [Took(call[t], env) EXCEPT
                                    !.outcome = "SegmentationNotSupported"])
              ELSE with_exit(t, [Took(call[t], env) EXCEPT
                                    !.outcome = "return", !.value = Some(env.data)])
    /\ UNCHANGED <<started, outstanding, ncalls>>

\* readMultiple, lines 146-150: set the event, return data.
readMultiple_receive(t) ==
    /\ ResponseQueue # << >>
    /\ LET env == Head(ResponseQueue)
       IN  /\ ResponseQueue' = Tail(ResponseQueue)
           /\ with_exit(t, [Took(call[t], env) EXCEPT
                               !.outcome = "return", !.value = Some(env.data)])
    /\ UNCHANGED <<started, outstanding, ncalls>>

\* timeout with the guard as a flag that this path forgets to clear.
timeout_keeps_guard(t) ==
    /\ ResponseQueue = << >>
    /\ call' = [call EXCEPT ![t] = [call[t] EXCEPT !.waits = @ + 1,
                                       !.outcome = "NoResponseFromController"]]
    /\ pc' = [pc EXCEPT ![t] = "returned"]
    /\ UNCHANGED <<started, lock, ResponseQueue, outstanding, ncalls>>

\* timeout with "return None" in place of the raise.
timeout_returns_none(t) ==
    /\ ResponseQueue = << >>
    /\ with_exit(t, [call[t] EXCEPT !.waits = @ + 1, !.outcome = "return"])
    /\ UNCHANGED <<started, ResponseQueue, outstanding, ncalls>>

\* timeout with the exception swallowed: the loop goes round and waits again.
timeout_waits_again(t) ==
    /\ ResponseQueue = << >>
    /\ call' = [call EXCEPT ![t].waits = IF @ < 2 THEN @ + 1 ELSE @]
    /\ UNCHANGED <<started, lock, pc, ResponseQueue, outstanding, ncalls>>

\* "except Empty: raise NoResponseFromController": nothing was on the queue
\* for the whole window.
timeout(t) ==
    /\ ResponseQueue = << >>
    /\ with_exit(t, [call[t] EXCEPT !.waits = @ + 1,
                                    !.outcome = "NoResponseFromController"])
    /\ UNCHANGED <<started, ResponseQueue, outstanding, ncalls>>

\* read, lines 94-109: the wait loop.
read_wait(t) ==
    /\ pc[t] = "wait"
    /\ call[t].op = "read"
    /\ (read_receive(t) \/ timeout(t))

\* readMultiple, lines 143-156: the wait loop.
readMultiple_wait(t) ==
    /\ pc[t] = "wait"
    /\ call[t].op = "readMultiple"
    /\ (readMultiple_receive(t) \/ timeout(t))

\* The caller has the value or the exception and may call again.
caller_continues(t) ==
    /\ pc[t] = "returned"
    /\ pc' = [pc EXCEPT ![t] = "idle"]
    /\ call' = [call EXCEPT ![t] = NoCall]
    /\ UNCHANGED <<started, lock, ResponseQueue, outstanding, ncalls>>

\* ------------------------------------------------------------- environment
\* The engine answers an accepted request, whenever it likes, also after the
\* caller of that request gave up: it puts (value, evt) on the queue.
engine_deliver(r, data) ==
    /\ r \in outstanding
    /\ Len(ResponseQueue) < MaxQueue
    /\ ResponseQueue' = Append(ResponseQueue, [data |-> data, evt |-> r, req |-> r])
    /\ outstanding' = outstanding \ {r}
    /\ UNCHANGED <<started, lock, pc, call, ncalls>>

\* The application is started or stopped by its owner.
set_started(b) ==
    /\ started # b
    /\ started' = b
    /\ UNCHANGED <<lock, pc, call, ResponseQueue, outstanding, ncalls>>

Init == IoInit /\ BuildIdle

Next ==
    \/ \E t \in Threads : read_entry(t) /\ UNCHANGED buildVars
    \/ \E t \in Threads : readMultiple_entry(t) /\ UNCHANGED buildVars
    \/ \E t \in Threads : acquire(t) /\ UNCHANGED buildVars
    \/ \E t \in Threads : read_request(t) /\ UNCHANGED buildVars
    \/ \E t \in Threads : readMultiple_request(t) /\ UNCHANGED buildVars
    \/ \E t \in Threads : read_wait(t) /\ UNCHANGED buildVars
    \/ \E t \in Threads : readMultiple_wait(t) /\ UNCHANGED buildVars
    \/ \E t \in Threads : caller_continues(t) /\ UNCHANGED buildVars
    \/ \E r \in 1 .. MaxCalls, data \in Payloads : engine_deliver(r, data) /\ UNCHANGED buildVars
    \/ \E b \in BOOLEAN : set_started(b) /\ UNCHANGED buildVars

Spec == Init /\ [][Next]_vars

\* A step of the call of thread t inside the with block: build and submit, or
\* the end of the wait (an envelope, or Empty after _TIMEOUT seconds).
InGuardStep(t) ==
    /\ read_request(t) \/ readMultiple_request(t) \/ read_wait(t) \/ readMultiple_wait(t)
    /\ UNCHANGED buildVars

\* The schedule: a thread inside the with block goes on, so every wait ends,
\* by an envelope or by the timeout; a thread at the with statement gets the
\* guard if the guard stays free.  Every thread makes one call, so no thread
\* can take the guard again and again in front of another: weak fairness is
\* all that is asked of the guard.  Nothing is asked of the engine.
Fairness ==
    \A t \in Threads :
        /\ WF_vars(InGuardStep(t))
        /\ WF_vars(acquire(t) /\ UNCHANGED buildVars)

\* The calls made under the fair schedule: for each method a spec its builder
\* accepts and one it refuses.
FairReadInputs ==
    { <<AddrToken, "analogInput", "12", "presentValue">>,
      <<AddrToken, "all", "12", "presentValue">> }

FairReadMultipleInputs ==
    { <<AddrToken, "analogInput", "12", "presentValue", "all">>,
      <<AddrToken>> }

\* The application is started and stays so: after its first statement a call
\* never looks at the flag again.
FairInit == Init /\ started

\* One call per thread: a thread that has its value or its exception stops.

FairNext ==
    \/ \E t \in Threads, a \in FairReadInputs :
          entry(t, "read", a, None) /\ UNCHANGED buildVars
    \/ \E t \in Threads, a \in FairReadMultipleInputs :
          entry(t, "readMultiple", a, None) /\ UNCHANGED buildVars
    \/ \E t \in Threads : acquire(t) /\ UNCHANGED buildVars
    \/ \E t \in Threads : InGuardStep(t)
    \/ \E r \in 1 .. MaxCalls, data \in Payloads : engine_deliver(r, data) /\ UNCHANGED buildVars

SpecFair == FairInit /\ [][FairNext]_vars /\ Fairness

\* The same calls with no schedule promised.
SpecUnfair == FairInit /\ [][FairNext]_vars

\* ------------------------------------------------- the builders on their own
\* No caller, no engine: the application is left alone.
IoIdle ==
    /\ started = FALSE
    /\ lock = 0
    /\ pc = [t \in Threads |-> "idle"]
    /\ call = [t \in Threads |-> NoCall]
    /\ ResponseQueue = << >>
    /\ outstanding = {}
    /\ ncalls = 0

\* args.split() of the shortest specs: no token, or the address alone.
ShortestTokenLists == { << >>, <<AddrToken>> }

\* The values read() is given for arr_index.
ArrIndexArgs == {None, Some(7)}

BuildInit ==
    /\ IoIdle
    /\ args \in ShortestTokenLists
    /\ arr_index = None
    /\ result = Raised("")
    /\ bpc = "input"
    /\ groups = << >>

\* self.build_rp_request(args, arr_index)
call_build_rp ==
    /\ bpc = "input"
    /\ \E idx \in ArrIndexArgs :
          /\ arr_index' = idx
          /\ result' = build_rp_request(args, idx)
    /\ bpc' = "rp"
    /\ UNCHANGED <<args, groups>>
    /\ UNCHANGED ioVars

\* self.build_rpm_request(args)
call_build_rpm ==
    /\ bpc = "input"
    /\ result' = build_rpm_request(args)
    /\ bpc' = "rpm"
    /\ UNCHANGED <<args, arr_index, groups>>
    /\ UNCHANGED ioVars

\* The spec has one more token after the address: args.split() is longer by
\* one, up to MaxTokens tokens after the address.
write_token(tok) ==
    /\ bpc = "input"
    /\ args # << >>
    /\ Len(args) < 1 + MaxTokens
    /\ args' = Append(args, tok)
    /\ UNCHANGED <<arr_index, result, bpc, groups>>
    /\ UNCHANGED ioVars

BuildNext ==
    \/ \E tok \in Tokens : write_token(tok)
    \/ call_build_rp
    \/ call_build_rpm

SpecBuild == BuildInit /\ [][BuildNext]_vars

\* --------------------------------------- token lists made of object groups
\* The format of readMultiple: <addr> ( <type> <inst> ( <prop> [ <indx> ] )... )...
\* A group is [type, inst, props], a property [prop, idx] with idx None or
\* Some(token).
TypeTokens == {tok \in Tokens : isdigit(tok) \/ get_object_class(tok)}

DigitTokens == {tok \in Tokens : isdigit(tok)}

\* The property tokens that are valid for an object-type token: the selectors
\* and the identifiers with a datatype.
ValidPropertyTokens(ty) ==
    {tok \in Tokens \cap PropertyIdentifier_enumerations :
        tok \in Selectors \/ get_datatype(ResolveType(ty), tok)}

RECURSIVE FlattenProps(_)
FlattenProps(props) ==
    IF props = << >> THEN << >>
    ELSE <<Head(props).prop>> \o Head(props).idx \o FlattenProps(Tail(props))

RECURSIVE FlattenGroups(_)
FlattenGroups(gs) ==
    IF gs = << >> THEN << >>
    ELSE <<Head(gs).type, Head(gs).inst>> \o FlattenProps(Head(gs).props)
             \o FlattenGroups(Tail(gs))

GroupsInit ==
    /\ IoIdle
    /\ args = << >>
    /\ arr_index = None
    /\ result = Raised("")
    /\ bpc = "input"
    /\ groups = << >>

\* The caller writes the next object: a type and an instance.
add_group(ty, inst) ==
    /\ bpc = "input"
    /\ IF groups = << >> THEN TRUE ELSE groups[Len(groups)].props # << >>
    /\ Len(FlattenGroups(groups)) + 3 <= MaxGroupTokens
    /\ groups' = Append(groups, [type |-> ty, inst |-> inst, props |-> << >>])
    /\ UNCHANGED <<args, arr_index, result, bpc>>
    /\ UNCHANGED ioVars

\* The caller writes the next property of the object, with or without index.
add_property(p, idx) ==
    /\ bpc = "input"
    /\ groups # << >>
    /\ p \in ValidPropertyTokens(groups[Len(groups)].type)
    /\ Len(FlattenGroups(groups)) + 1 + Len(idx) <= MaxGroupTokens
    /\ groups' = [groups EXCEPT ![Len(groups)].props = Append(@, [prop |-> p, idx |-> idx])]
    /\ UNCHANGED <<args, arr_index, result, bpc>>
    /\ UNCHANGED ioVars

\* self.build_rpm_request(args) on the tokens of the groups.
build_groups ==
    /\ bpc = "input"
    /\ groups # << >>
    /\ groups[Len(groups)].props # << >>
    /\ args' = <<AddrToken>> \o FlattenGroups(groups)
    /\ result' = build_rpm_request(<<AddrToken>> \o FlattenGroups(groups))
    /\ bpc' = "rpm"
    /\ UNCHANGED <<arr_index, groups>>
    /\ UNCHANGED ioVars

GroupsNext ==
    \/ \E ty \in TypeTokens, inst \in DigitTokens : add_group(ty, inst)
    \/ \E p \in Tokens, idx \in {None} \cup {Some(d) : d \in DigitTokens} : add_property(p, idx)
    \/ build_groups

SpecGroups == GroupsInit /\ [][GroupsNext]_vars

\* ------------------------------------------------------------------ claims
Returned(t) == pc[t] = "returned"

\* Between acquiring and releasing the guard.
InGuard(t) == pc[t] \in {"build", "wait"}

\* C1: at most one read or readMultiple call is between acquiring and
\* releasing the guard, and that call is the holder of the guard; hence at
\* most one call has submitted and waits on the response queue.
C1_MutualExclusion ==
    /\ Cardinality({t \in Threads : InGuard(t)}) <= 1
    /\ \A t \in Threads : InGuard(t) <=> lock = t

\* A read waits on the queue while a readMultiple is blocked on the guard.
C1_Witness ==
    \E t, u \in Threads :
        /\ pc[t] = "wait" /\ call[t].op = "read"
        /\ pc[u] = "acquire" /\ call[u].op = "readMultiple"

\* C2: every envelope a call took from the queue is the engine's response to
\* the request that same call submitted.
C2_OwnResponse ==
    \A t \in Threads : \A k \in DOMAIN call[t].got :
        call[t].req # 0 /\ call[t].got[k].req = call[t].req

\* C3: a call that took an envelope carrying the sentinel fails with
\* SegmentationNotSupported and does not return the sentinel.
C3_SentinelRaises ==
    \A t \in Threads :
        (Returned(t) /\ \E k \in DOMAIN call[t].got : call[t].got[k].data = ErrSeg)
            => /\ call[t].outcome = "SegmentationNotSupported"
               /\ call[t].value # Some(ErrSeg)

\* C4: a call that acquired the guard has released it exactly once when it
\* returns, whatever the exit path; it holds it exactly while it is inside
\* the with block; the guard is free whenever no call is inside.
C4_GuardReleased ==
    /\ \A t \in Threads :
          /\ call[t].acquires <= 1
          /\ Returned(t) => call[t].releases = call[t].acquires
          /\ InGuard(t) => call[t].acquires = 1 /\ call[t].releases = 0
          /\ lock = t => InGuard(t)
    /\ (\A t \in Threads : ~InGuard(t)) => lock = 0

\* One call left by a validation failure and one by the timeout, both having
\* held the guard.
C4_Witness ==
    \E t, u \in Threads :
        /\ Returned(t) /\ call[t].outcome \in ValidationErrors /\ call[t].releases = 1
        /\ Returned(u) /\ call[u].outcome = "NoResponseFromController"
        /\ call[u].releases = 1
        /\ lock = 0

\* C5: a call fails with NoResponseFromController exactly when its one wait
\* found no envelope; it then has no value, waited once, and no longer holds
\* the guard.
C5_TimeoutFails ==
    \A t \in Threads :
        Returned(t) =>
            /\ (call[t].waits >= 1 /\ call[t].got = << >>)
                   <=> call[t].outcome = "NoResponseFromController"
            /\ call[t].outcome = "NoResponseFromController"
                   => /\ call[t].value = None
                      /\ call[t].waits = 1
                      /\ call[t].releases = 1
                      /\ lock # t

\* After a call timed out, a call made later holds the guard and waits.
C5_Witness ==
    \E t, u \in Threads :
        /\ Returned(t) /\ call[t].outcome = "NoResponseFromController"
        /\ call[u].id > call[t].id
        /\ lock = u /\ pc[u] = "wait"

\* C6: a call made while the application is not started ends at once with
\* ApplicationNotStarted, having built, submitted, acquired and consumed
\* nothing, and leaves the guard, the queue and the engine as they were.
C6_NotStarted ==
    [][\A t \in Threads :
          (pc[t] = "idle" /\ pc'[t] # "idle" /\ ~started)
              => /\ pc'[t] = "returned"
                 /\ call'[t].outcome = "ApplicationNotStarted"
                 /\ call'[t].acquires = 0 /\ call'[t].releases = 0
                 /\ call'[t].builds = 0 /\ call'[t].submits = 0
                 /\ call'[t].waits = 0 /\ call'[t].got = << >>
                 /\ UNCHANGED <<started, lock, ResponseQueue, outstanding>>]_vars

\* A call failed with ApplicationNotStarted while another call held the guard.
C6_Witness ==
    \E t \in Threads :
        /\ Returned(t) /\ call[t].outcome = "ApplicationNotStarted"
        /\ call[t].guardBusy /\ call[t].acquires = 0

\* C7 as stated: every call made while started has submitted exactly one
\* request and consumed exactly one envelope when it returns.
C7_ExactlyOne ==
    \A t \in Threads :
        (Returned(t) /\ call[t].outcome # "ApplicationNotStarted")
            => call[t].submits = 1 /\ Len(call[t].got) = 1

\* C7 amended: a call submits at most one request and consumes at most one
\* envelope; a returned call that was made while started submitted exactly
\* one unless building failed, and consumed exactly one exactly when it
\* returned a value or raised SegmentationNotSupported.
C7_AtMostOne ==
    \A t \in Threads :
        /\ call[t].submits <= 1
        /\ Len(call[t].got) <= 1
        /\ (Returned(t) /\ call[t].outcome # "ApplicationNotStarted")
              => /\ call[t].submits = 1 <=> call[t].outcome \notin ValidationErrors
                 /\ Len(call[t].got) = 1
                       <=> call[t].outcome \in {"return", "SegmentationNotSupported"}

\* One call returned a value after one submission and one envelope, another
\* timed out after one submission and no envelope.
C7_Witness ==
    \E t, u \in Threads :
        /\ Returned(t) /\ call[t].outcome = "return"
        /\ call[t].submits = 1 /\ Len(call[t].got) = 1
        /\ Returned(u) /\ call[u].outcome = "NoResponseFromController"
        /\ call[u].submits = 1 /\ call[u].got = << >>

\* C8: a call whose builder raised a validation error has returned with that
\* error, without submitting, without waiting on the queue and without taking
\* an envelope.
C8_ValidationPropagates ==
    \A t \in Threads :
        call[t].err # ""
            => /\ Returned(t)
               /\ call[t].outcome = ExceptionClass(call[t].err)
               /\ call[t].submits = 0 /\ call[t].req = 0
               /\ call[t].waits = 0 /\ call[t].got = << >>

\* A readMultiple failed on an empty specification list and a read on an
\* unknown object type.
C8_Witness ==
    \E t, u \in Threads :
        /\ Returned(t) /\ call[t].op = "readMultiple" /\ call[t].outcome = "RuntimeError"
        /\ Returned(u) /\ call[u].op = "read"
        /\ call[u].err = "ValueError: unknown object type"

\* What a token stands for, read off the format: a digit string is a number,
\* any other object-type token a name.
TypeOfToken(tok) ==
    IF tok \in {"3", "12"} THEN [code |-> int(tok), name |-> ""]
    ELSE [code |-> -1, name |-> tok]

IndexOfTokens(idx) == IF idx = << >> THEN << >> ELSE << int(idx[1]) >>

\* The specifications the groups ask for: one per group, in order, with the
\* group's properties in order.
ExpectedSpecs(gs) ==
    [k \in 1 .. Len(gs) |->
        [objectIdentifier |-> <<TypeOfToken(gs[k].type), int(gs[k].inst)>>,
         listOfPropertyReferences |->
            [j \in 1 .. Len(gs[k].props) |->
                [propertyIdentifier |-> gs[k].props[j].prop,
                 propertyArrayIndex |-> IndexOfTokens(gs[k].props[j].idx)]]]]

BuiltFromGroups == bpc = "rpm" /\ groups # << >>

GroupsAsWritten ==
    /\ result.err = ""
    /\ result.req[1].listOfReadAccessSpecs = ExpectedSpecs(groups)
    /\ Len(result.req[1].listOfReadAccessSpecs) = Len(groups)
    /\ \A k \in 1 .. Len(groups) :
          result.req[1].listOfReadAccessSpecs[k].listOfPropertyReferences # << >>

\* C9 as stated: for a token list made of N >= 1 well-formed groups,
\* build_rpm_request gives exactly the N specifications of the groups, in
\* order, each with the group's references.
C9_AllGroups == BuiltFromGroups => GroupsAsWritten

\* Every object-type token after the first is told apart from what precedes
\* it: it is no property identifier, and it is no digit string that follows a
\* property written without index.
Delimited(gs) ==
    \A k \in 2 .. Len(gs) :
        /\ gs[k].type \notin PropertyIdentifier_enumerations
        /\ ~(isdigit(gs[k].type) /\ gs[k - 1].props[Len(gs[k - 1].props)].idx = None)

\* C9 amended: the same, for the token lists in which every object-type token
\* after the first is no recognized property identifier and, when it is a
\* digit string, does not directly follow a property token.
C9_DelimitedGroups == (BuiltFromGroups /\ Delimited(groups)) => GroupsAsWritten

\* Two groups were built, the second with a numeric object type that follows
\* the index of the first group's property.
C9_Witness ==
    /\ BuiltFromGroups /\ Delimited(groups)
    /\ Len(groups) = 2
    /\ isdigit(groups[2].type)
    /\ groups[1].props[Len(groups[1].props)].idx # None
    /\ result.err = ""
    /\ Len(result.req[1].listOfReadAccessSpecs) = 2

\* A valid 4-token single-read spec.
Valid4(a) ==
    /\ Len(a) = 4
    /\ a[2] \in {"3", "12"} \/ get_object_class(a[2])
    /\ a[3] \in {"3", "12"}
    /\ get_datatype(TypeOfToken(a[2]), a[4])

RpMatchesTokens ==
    /\ result.err = ""
    /\ result.req[1].pduDestination = [net |-> 2, mac |-> 5]
    /\ result.req[1].objectIdentifier = <<TypeOfToken(args[2]), int(args[3])>>
    /\ result.req[1].propertyIdentifier = args[4]

\* C10 as stated: for a valid 4-token spec, whatever the index argument, the
\* request carries the tokens' address, type, instance and property and no
\* array index.
C10_IndexUnset ==
    (bpc = "rp" /\ Valid4(args))
        => RpMatchesTokens /\ result.req[1].propertyArrayIndex = None

\* C10 amended: for a valid 4-token spec the request carries the tokens'
\* address, type, instance and property, and its array index is the index
\* argument: unset when the argument is None.
C10_IndexIsArgument ==
    (bpc = "rp" /\ Valid4(args))
        => RpMatchesTokens /\ result.req[1].propertyArrayIndex = arr_index

\* A valid 4-token spec with a numeric object type was built with index
\* argument 7.
C10_Witness ==
    /\ bpc = "rp" /\ Valid4(args)
    /\ isdigit(args[2])
    /\ arr_index = Some(7)
    /\ result.err = ""
    /\ result.req[1].propertyArrayIndex = Some(7)

\* A valid 5-token single-read spec: a valid 4-token spec and an integer.
Valid5(a) ==
    /\ Len(a) = 5
    /\ Valid4(SubSeq(a, 1, 4))
    /\ a[5] \in {"3", "12"}

\* C11: for a valid 5-token spec the array index of the request is the 5th
\* token as an integer, whatever the index argument.
C11_IndexIsFifthToken ==
    (bpc = "rp" /\ Valid5(args))
        => /\ RpMatchesTokens
           /\ result.req[1].propertyArrayIndex = << int(args[5]) >>

\* A valid 5-token spec ending in 3 was built with index argument 7.
C11_Witness ==
    /\ bpc = "rp" /\ Valid5(args)
    /\ args[5] = "3"
    /\ arr_index = Some(7)
    /\ result.err = ""
    /\ result.req[1].propertyArrayIndex = << 3 >>

\* An object-type token the builders must refuse: no digit string, no name of
\* the registry.
NotAType(tok) == ~isdigit(tok) /\ ~get_object_class(tok)

UnknownTypeError ==
    result.err = "ValueError: unknown object type" /\ result.req = None

\* The first group of a multi-read token list: a type the builders accept, an
\* integer instance, one property that is valid for the type, written without
\* index and followed by a token.
FirstGroupOneProperty(a) ==
    /\ Len(a) >= 5
    /\ ~NotAType(a[2])
    /\ isdigit(a[3])
    /\ a[4] \in PropertyIdentifier_enumerations
    /\ a[4] \in {"all", "required", "optional"} \/ get_datatype(TypeOfToken(a[2]), a[4])
    /\ ~isdigit(a[5])

\* C12: in both builders an object-type token that is no digit string and
\* does not resolve gives the unknown-object-type error and no request (the
\* single-read token of a list of at least 4 tokens, the first and the second
\* object-type token of a multi-read); a digit-string token never gives that
\* error and becomes the integer code of the request, registered or not.
C12_UnknownObjectType ==
    /\ (bpc = "rp" /\ Len(args) >= 4 /\ NotAType(args[2])) => UnknownTypeError
    /\ (bpc = "rpm" /\ Len(args) >= 2 /\ NotAType(args[2])) => UnknownTypeError
    /\ (bpc = "rpm" /\ FirstGroupOneProperty(args)
            /\ args[5] \notin PropertyIdentifier_enumerations /\ NotAType(args[5]))
          => UnknownTypeError
    /\ (bpc = "rp" /\ Len(args) >= 4 /\ isdigit(args[2]))
          => /\ result.err # "ValueError: unknown object type"
             /\ result.err = ""
                   => result.req[1].objectIdentifier[1] = [code |-> int(args[2]), name |-> ""]
    /\ (bpc = "rpm" /\ Len(args) >= 2 /\ isdigit(args[2]))
          => /\ result.err = "ValueError: unknown object type" => Len(args) >= 5
             /\ result.err = ""
                   => result.req[1].listOfReadAccessSpecs[1].objectIdentifier[1]
                          = [code |-> int(args[2]), name |-> ""]

\* A multi-read whose second object-type token is unknown was refused after a
\* first group with the unregistered code 3.
C12_Witness ==
    /\ bpc = "rpm"
    /\ FirstGroupOneProperty(args)
    /\ args[2] = "3"
    /\ args[5] = "bogus"
    /\ UnknownTypeError

InvalidPropertyError ==
    result.err = "ValueError: invalid property for object type" /\ result.req = None

\* C13: a property identifier without datatype for its object type gives the
\* invalid-property error and no request: the 4th token of a single-read
\* whose type and instance tokens are accepted; in a multi-read the first
\* property token of the first group and the property token after it, unless
\* it is 'all', 'required' or 'optional'.  A selector is taken as a property
\* reference whatever the type, and a multi-read whose property tokens are
\* all selectors never gives the invalid-property error.
C13_InvalidProperty ==
    /\ (bpc = "rp" /\ Len(args) >= 4 /\ ~NotAType(args[2]) /\ isdigit(args[3])
            /\ ~get_datatype(TypeOfToken(args[2]), args[4]))
          => InvalidPropertyError
    /\ (bpc = "rpm" /\ Len(args) >= 4 /\ ~NotAType(args[2]) /\ isdigit(args[3])
            /\ args[4] \in PropertyIdentifier_enumerations \ {"all", "required", "optional"}
            /\ ~get_datatype(TypeOfToken(args[2]), args[4]))
          => InvalidPropertyError
    /\ (bpc = "rpm" /\ FirstGroupOneProperty(args)
            /\ args[5] \in PropertyIdentifier_enumerations \ {"all", "required", "optional"}
            /\ ~get_datatype(TypeOfToken(args[2]), args[5]))
          => InvalidPropertyError
    /\ (bpc = "rpm" /\ Len(args) = 4 /\ ~NotAType(args[2]) /\ isdigit(args[3])
            /\ args[4] \in {"all", "required", "optional"})
          => /\ result.err = ""
             /\ result.req[1].listOfReadAccessSpecs[1].listOfPropertyReferences
                    = << [propertyIdentifier |-> args[4], propertyArrayIndex |-> << >>] >>
    /\ (bpc = "rpm" /\ result.err = "ValueError: invalid property for object type")
          => \E i \in 4 .. Len(args) :
                args[i] \in PropertyIdentifier_enumerations \ {"all", "required", "optional"}

\* For an object of type notificationClass, 'all' was taken and presentValue,
\* which has no datatype there, refused.
C13_Witness ==
    /\ bpc = "rpm"
    /\ args = <<AddrToken, "notificationClass", "12", "all", "presentValue">>
    /\ InvalidPropertyError

\* C18: for a token list of fewer than 4 or more than 5 tokens
\* build_rp_request fails and gives no request.
C18_FourOrFiveTokens ==
    (bpc = "rp" /\ Len(args) \notin {4, 5}) => (result.err # "" /\ result.req = None)

\* C19: a request build_rpm_request returns has at least one specification
\* and every specification at least one property reference; the address alone
\* gives the empty-specification-list error; a group (the first, or the
\* second after a first group of one property) whose instance token is the
\* last token or is followed by a token that is no property identifier gives
\* the empty-property-list error.
C19_NoEmptyList ==
    bpc = "rpm" =>
        /\ result.err = ""
              => /\ result.req[1].listOfReadAccessSpecs # << >>
                 /\ \A k \in DOMAIN result.req[1].listOfReadAccessSpecs :
                       result.req[1].listOfReadAccessSpecs[k].listOfPropertyReferences # << >>
        /\ Len(args) = 1
              => /\ result.err = "RuntimeError: at least one read access specification required"
                 /\ result.req = None
        /\ (Len(args) >= 3 /\ ~NotAType(args[2]) /\ isdigit(args[3])
                /\ (Len(args) = 3 \/ args[4] \notin PropertyIdentifier_enumerations))
              => /\ result.err = "ValueError: provide at least one property"
                 /\ result.req = None
        /\ (Len(args) >= 6 /\ FirstGroupOneProperty(args)
                /\ args[5] \notin PropertyIdentifier_enumerations /\ ~NotAType(args[5])
                /\ isdigit(args[6])
                /\ (Len(args) = 6 \/ args[7] \notin PropertyIdentifier_enumerations))
              => /\ result.err = "ValueError: provide at least one property"
                 /\ result.req = None

\* The second group of a multi-read ends after its instance token.
C19_Witness ==
    /\ bpc = "rpm"
    /\ Len(args) = 6 /\ FirstGroupOneProperty(args)
    /\ get_object_class(args[5]) /\ isdigit(args[6])
    /\ result.err = "ValueError: provide at least one property"

\* The engine refused the request of the call of thread t at submission.
SubmissionRaised(t) == call[t].submits = 1 /\ call[t].req = 0

C15_AckOncePerEnvelope ==
    \A t \in Threads :
        /\ call[t].acked = [k \in DOMAIN call[t].got |-> call[t].got[k].evt]
        /\ Len(call[t].acked) <= 1
        /\ Returned(t)
              => /\ call[t].outcome \in {"return", "SegmentationNotSupported"}
                       => Len(call[t].acked) = 1
                 /\ call[t].outcome \notin {"return", "SegmentationNotSupported"}
                       => call[t].acked = << >>

\* A read raised SegmentationNotSupported and a readMultiple returned a value,
\* each having set the event of the envelope it took.
C15_Witness ==
    \E t, u \in Threads :
        /\ Returned(t) /\ call[t].outcome = "SegmentationNotSupported"
        /\ Len(call[t].got) = 1 /\ call[t].acked = << call[t].got[1].evt >>
        /\ Returned(u) /\ call[u].op = "readMultiple" /\ call[u].outcome = "return"
        /\ Len(call[u].got) = 1 /\ call[u].acked = << call[u].got[1].evt >>

\* C17 as stated: a call whose tokens the builder refused has never acquired
\* or released the guard.
C17_NeverAcquires ==
    \A t \in Threads :
        call[t].err # "" => call[t].acquires = 0 /\ call[t].releases = 0

\* C17 amended: the builder runs inside the guard.  A call that waits for the
\* guard has not validated anything yet; a call whose tokens the builder
\* refused acquired the guard once, built once, released the guard once, and
\* neither submitted nor waited on the queue.
C17_FailsInsideGuard ==
    \A t \in Threads :
        /\ call[t].builds <= call[t].acquires
        /\ pc[t] = "acquire" => call[t].builds = 0 /\ call[t].err = ""
        /\ call[t].err # ""
              => /\ Returned(t)
                 /\ call[t].acquires = 1 /\ call[t].releases = 1
                 /\ call[t].builds = 1
                 /\ call[t].submits = 0 /\ call[t].waits = 0

\* A read of an unknown object type failed after acquiring and releasing the
\* guard, while a later call is inside the guard.
C17_Witness ==
    \E t, u \in Threads :
        /\ Returned(t) /\ call[t].op = "read"
        /\ call[t].err = "ValueError: unknown object type"
        /\ call[t].acquires = 1 /\ call[t].releases = 1
        /\ pc[u] = "wait" /\ lock = u

\* C16: under the fair schedule every call that reached the with statement
\* eventually returns, with a value or an exception, whether or not the
\* engine ever delivers; and no call waits on the queue more than once.
C16_BoundedWait ==
    /\ [](\A t \in Threads : call[t].waits <= 1)
    /\ \A t \in Threads : (pc[t] \in {"acquire", "build", "wait"}) ~> Returned(t)

\* Two calls ended by the timeout after one wait each, the requests of both
\* still unanswered by the engine.
C16_Witness ==
    \E t, u \in Threads :
        /\ t # u
        /\ Returned(t) /\ call[t].outcome = "NoResponseFromController" /\ call[t].waits = 1
        /\ Returned(u) /\ call[u].outcome = "NoResponseFromController" /\ call[u].waits = 1
        /\ {call[t].req, call[u].req} \subseteq outstanding

====
